---- MODULE Spec2Model ----
(***************************************************************************)
(* A model of the poa-multi-agent orchestration core:                      *)
(*   - the pipeline assembler and its process-wide singleton               *)
(*     (services/agent_runner.py and the poa_agents factories);            *)
(*   - the completion poller wait_for_task_completion and the status       *)
(*     adapter get_task_status it calls (tools/crawler_tools.py).          *)
(*   - the other tool adapters (tools/crawler_tools.py and                 *)
(*     tools/analysis_tools.py);                                           *)
(*   - the analysis endpoint create_analysis and the run it starts         *)
(*     (api/routers/analysis.py).                                          *)
(* Each subsystem has its own specification: SpecPipeline, SpecPoller,     *)
(* SpecPollerLive (the poller under fair scheduling), SpecTools, SpecApi   *)
(* and SpecCallers (the singleton under interleaved callers).              *)
(***************************************************************************)
EXTENDS Integers, Sequences, FiniteSets, TLC

VARIABLES
    \* ---- pipeline singleton (agent_runner.py) ----
    agent_system,    \* the module global _agent_system: None or a reference
    heap,            \* every Agent object built so far; a reference is an index
    log,             \* history: the calls made so far and what each returned
    \* ---- completion poller (crawler_tools.py) ----
    pc,              \* position of the wait_for_task_completion coroutine
    now,             \* the event loop's clock, loop.time()
    task_id,         \* argument task_id
    timeout,         \* argument timeout
    poll_interval,   \* argument poll_interval
    start_time,      \* local start_time
    status_result_json, \* local status_result_json
    result,          \* what the call returned (or that it raised)
    fetched,         \* history: the text every status fetch returned
    nsleep,          \* history: number of completed asyncio.sleep calls
    fetch_delay_sum, \* history: clock time spent inside status fetches
    \* ---- tool adapters (crawler_tools.py, analysis_tools.py) ----
    tool_call,       \* the last adapter call: arguments, exchange, request, result
    ncalls,          \* history: number of adapter calls made
    crawl_tasks,     \* the crawl service: number of crawl tasks it has created
    \* ---- analysis endpoint (api/routers/analysis.py) and one run ----
    api_pc,          \* position of create_analysis: idle, running, responded
    api_request,     \* the AnalysisRequest being served
    session_id,      \* local session_id
    active,          \* the run: reference of the agent that has control
    handoff_trace,   \* history: names of the agents that have had control
    current_turn,    \* the run: turns taken so far
    response,        \* the AnalysisResponse returned
    nrequests,       \* history: number of requests received
    \* ---- concurrent callers of the singleton API (agent_runner.py) ----
    callers,         \* per caller: position in get_agent_system and locals
    conc_log,        \* history: the calls completed so far, in order
    \* ---- two concurrent calls of wait_for_task_completion ----
    loop_time,       \* the event loop's clock, which every call reads
    frames,          \* per call: its position and its local variables
    solo             \* per call: the same call run alone on its own replies

sysVars  == <<agent_system, heap, log>>
pollVars == <<pc, now, task_id, timeout, poll_interval, start_time,
              status_result_json, result, fetched, nsleep, fetch_delay_sum>>
toolVars == <<tool_call, ncalls, crawl_tasks>>
apiVars  == <<api_pc, api_request, session_id, active, handoff_trace,
              current_turn, response, nrequests>>
concVars == <<callers, conc_log>>
waitVars == <<loop_time, frames, solo>>
extVars  == <<toolVars, apiVars, concVars, waitVars>>
vars     == <<sysVars, pollVars, extVars>>

(***************************************************************************)
(* Bounds of the model.                                                    *)
(***************************************************************************)
MaxOps == 4          \* calls of the singleton API per behaviour
MaxFetches == 4      \* status fetches per poll in SpecPoller
MaxTimeout == 2      \* small timeouts range over -1..MaxTimeout
MaxInterval == 2     \* small poll intervals range over 0..MaxInterval
MaxFetchDelay == 1   \* clock time one status fetch may take

None == 0            \* Python's None, as a reference

(***************************************************************************)
(* Generic helpers.                                                        *)
(***************************************************************************)
Range(s) == {s[i] : i \in DOMAIN s}

(***************************************************************************)
(* Agents.  An Agent object carries a name, its tools, its handoff targets *)
(* (references to Agent objects) and its output contract.                  *)
(***************************************************************************)
CoordinatorTools ==
    <<"create_crawler_task", "get_task_status", "wait_for_task_completion",
      "query_crawled_posts">>

DataCollectionTools ==
    <<"create_crawler_task", "get_task_status", "wait_for_task_completion",
      "get_crawler_statistics", "query_crawled_posts">>

ContentAnalysisTools ==
    <<"analyze_sensitive_content", "analyze_sentiment", "extract_topics",
      "detect_trends", "analyze_engagement">>

\* Agent(...) allocates a new object: the heap grows by one, and the new
\* object's reference is the new length of the heap.
NewAgent(h, name, tools, handoffs, output_type) ==
    Append(h, [name |-> name, tools |-> tools, handoffs |-> handoffs,
               output_type |-> output_type])

\* A decision support agent wired back to itself.
Mutant_create_decision_support_agent(h) ==
    NewAgent(h, "Decision Support", <<>>, <<Len(h) + 1>>, "DecisionSupport")

create_decision_support_agent(h) ==
    NewAgent(h, "Decision Support", <<>>, <<>>, "DecisionSupport")

\* poa_agents/report_generation.py: wired to the decision support agent
\* (spec section 4.3); its tools and contract are not given.
create_report_generation_agent(h, decision_support_agent) ==
    NewAgent(h, "Report Generation", <<>>, <<decision_support_agent>>, "Report")

create_content_analysis_agent(h, report_generation_agent) ==
    NewAgent(h, "Content Analysis", ContentAnalysisTools,
             <<report_generation_agent>>, "AnalysisResult")

create_data_collection_agent(h, content_analysis_agent) ==
    NewAgent(h, "Data Collection", DataCollectionTools,
             <<content_analysis_agent>>, "CrawlerResult")

Mutant_create_coordinator_agent(h, data_collection_agent, analysis_pipeline_agent) ==
    NewAgent(h, "Coordinator", CoordinatorTools, <<data_collection_agent>>, "None")

create_coordinator_agent(h, data_collection_agent, analysis_pipeline_agent) ==
    NewAgent(h, "Coordinator", CoordinatorTools,
             <<data_collection_agent, analysis_pipeline_agent>>, "None")

\* The same assembly with one wiring slip: Data Collection is built before
\* Content Analysis and is handed the report generation agent.
Mutant_initialize_agent_system(h) ==
    LET h1 == create_decision_support_agent(h)
        decision_support_agent == Len(h1)
        h2 == create_report_generation_agent(h1, decision_support_agent)
        report_generation_agent == Len(h2)
        h3 == create_data_collection_agent(h2, report_generation_agent)
        data_collection_agent == Len(h3)
        h4 == create_content_analysis_agent(h3, report_generation_agent)
        content_analysis_agent == Len(h4)
        h5 == create_coordinator_agent(h4, data_collection_agent,
                                       content_analysis_agent)
    IN  [heap |-> h5, ret |-> Len(h5)]

\* initialize_agent_system: the five factories in the order of the code; the
\* result is the new heap and the reference of the Coordinator.
initialize_agent_system(h) ==
    LET h1 == create_decision_support_agent(h)
        decision_support_agent == Len(h1)
        h2 == create_report_generation_agent(h1, decision_support_agent)
        report_generation_agent == Len(h2)
        h3 == create_content_analysis_agent(h2, report_generation_agent)
        content_analysis_agent == Len(h3)
        h4 == create_data_collection_agent(h3, content_analysis_agent)
        data_collection_agent == Len(h4)
        h5 == create_coordinator_agent(h4, data_collection_agent,
                                       content_analysis_agent)
    IN  [heap |-> h5, ret |-> Len(h5)]

\* get_agent_system without the None test: it builds on every call.
Mutant_get_agent_system(sys, h) ==
    LET b == initialize_agent_system(h)
    IN  [sys |-> b.ret, heap |-> b.heap, ret |-> b.ret]

\* get_agent_system: the new value of the global, the new heap, and the
\* reference returned.
get_agent_system(sys, h) ==
    IF sys = None
    THEN LET b == initialize_agent_system(h)
         IN  [sys |-> b.ret, heap |-> b.heap, ret |-> b.ret]
    ELSE [sys |-> sys, heap |-> h, ret |-> sys]

\* reset_agent_system that forgets to clear the global.
Mutant_reset_agent_system(sys) == sys

\* reset_agent_system: the new value of the global.
reset_agent_system(sys) == None

(***************************************************************************)
(* The singleton API as actions.  Every call is logged with the heap size  *)
(* before and after it, so that a build is visible as a growth of the heap.*)
(***************************************************************************)
Event(op, ret, before, after) ==
    [op |-> op, ret |-> ret, before |-> before, after |-> after]

GetAgentSystem ==
    /\ Len(log) < MaxOps
    /\ LET r == get_agent_system(agent_system, heap)
       IN  /\ agent_system' = r.sys
           /\ heap' = r.heap
           /\ log' = Append(log, Event("get", r.ret, Len(heap), Len(r.heap)))
    /\ UNCHANGED <<pollVars, extVars>>

ResetAgentSystem ==
    /\ Len(log) < MaxOps
    /\ agent_system' = reset_agent_system(agent_system)
    /\ log' = Append(log, Event("reset", None, Len(heap), Len(heap)))
    /\ UNCHANGED <<heap, pollVars, extVars>>

\* initialize_agent_system called directly, as tests/test_agent_system.py
\* does: it builds a graph and leaves the global alone.
InitializeAgentSystem ==
    /\ Len(log) < MaxOps
    /\ LET b == initialize_agent_system(heap)
       IN  /\ heap' = b.heap
           /\ log' = Append(log, Event("initialize", b.ret, Len(heap), Len(b.heap)))
    /\ UNCHANGED <<agent_system, pollVars, extVars>>

InitSys ==
    /\ agent_system = None
    /\ heap = <<>>
    /\ log = <<>>

PollIdle ==
    /\ pc = "idle"
    /\ now = 0
    /\ task_id = "none"
    /\ timeout = 0
    /\ poll_interval = 0
    /\ start_time = 0
    /\ status_result_json = [text |-> [kind |-> "none", val |-> {}]]
    /\ result = [outcome |-> "none", value |-> [text |-> [kind |-> "none", val |-> {}]]]
    /\ fetched = <<>>
    /\ nsleep = 0
    /\ fetch_delay_sum = 0

ToolIdle ==
    /\ tool_call = [tool |-> "none"]
    /\ ncalls = 0
    /\ crawl_tasks = 0

\* Python's None where a string is expected.
Null == "null"

NoResponse == [status |-> "none"]

ApiIdle ==
    /\ api_pc = "idle"
    /\ api_request = [session_id |-> Null, max_turns |-> 0]
    /\ session_id = Null
    /\ active = None
    /\ handoff_trace = <<>>
    /\ current_turn = 0
    /\ response = NoResponse
    /\ nrequests = 0

MaxCallers == 2      \* concurrent callers of the singleton API
MaxCallerOps == 4    \* calls of the singleton API the callers make in all

Callers == 1..MaxCallers

CallersIdle ==
    /\ callers = [c \in Callers |-> [pc |-> "idle", built |-> None, started |-> 0,
                                     settled |-> FALSE]]
    /\ conc_log = <<>>

MaxClock == 3        \* the event loop's clock runs from 0 to MaxClock

\* The two concurrent calls of wait_for_task_completion.
Pollers == {"first", "second"}

\* The local variables of a call that has not started.
NoFrame ==
    [pc |-> "idle", task_id |-> "none", timeout |-> 0, poll_interval |-> 0,
     start_time |-> 0, wake |-> 0,
     result |-> [outcome |-> "none", value |-> [text |-> [kind |-> "none", val |-> {}]]]]

WaitIdle ==
    /\ loop_time = 0
    /\ frames = [p \in Pollers |-> NoFrame]
    /\ solo = [p \in Pollers |-> NoFrame]

ExtIdle == ToolIdle /\ ApiIdle /\ CallersIdle /\ WaitIdle

InitPipeline == InitSys /\ PollIdle /\ ExtIdle

NextPipeline ==
    \/ GetAgentSystem
    \/ ResetAgentSystem
    \/ InitializeAgentSystem

SpecPipeline == InitPipeline /\ [][NextPipeline]_vars

(***************************************************************************)
(* Reading the history and the object graph.                               *)
(***************************************************************************)
Gets == {i \in DOMAIN log : log[i].op = "get"}

Builds == {i \in DOMAIN log : log[i].after > log[i].before}

ResetBetween(i, j) == \E k \in (i + 1)..(j - 1) : log[k].op = "reset"

\* A get with no earlier get since the process started or since a reset.
FirstGet(j) == \A i \in Gets : i < j => ResetBetween(i, j)

Successors(h, S) == UNION {Range(h[a].handoffs) : a \in S}

RECURSIVE Grow(_, _)
Grow(h, S) ==
    LET T == S \cup Successors(h, S)
    IN  IF T = S THEN S ELSE Grow(h, T)

\* The agents of the graph whose entry is r.
Reach(h, r) == Grow(h, {r})

OnCycle(h, a) == a \in Grow(h, Successors(h, {a}))

HandoffNames(h, a) == [i \in DOMAIN h[a].handoffs |-> h[h[a].handoffs[i]].name]

\* The handoff edges leaving the agents of S, by name.
Edges(h, S) ==
    UNION {{<<h[a].name, h[t].name>> : t \in Range(h[a].handoffs)} : a \in S}

\* The structure of the graph below r with the references unfolded: names,
\* tools, contracts and handoff edges, but no object identity.
RECURSIVE Shape(_, _)
Shape(h, r) ==
    [name |-> h[r].name, tools |-> h[r].tools, output_type |-> h[r].output_type,
     handoffs |-> [i \in DOMAIN h[r].handoffs |-> Shape(h, h[r].handoffs[i])]]

(***************************************************************************)
(* C1: get_agent_system builds the pipeline on the first call, and every   *)
(* further get_agent_system call with no reset_agent_system in between     *)
(* returns the very same instance and builds nothing.                      *)
(***************************************************************************)
C1_SingletonReuse ==
    \A j \in Gets :
        /\ FirstGet(j) =>
              /\ j \in Builds
              /\ log[j].ret \in (log[j].before + 1)..log[j].after
        /\ \A i \in Gets :
              (i < j /\ ~ResetBetween(i, j)) =>
                  /\ log[j].ret = log[i].ret
                  /\ j \notin Builds

\* Three get calls in a row, the first of them building.
C1_Witness ==
    \E i, j, k \in Gets :
        /\ i < j /\ j < k /\ ~ResetBetween(i, k)
        /\ i \in Builds

(***************************************************************************)
(* C2: after reset_agent_system the next get_agent_system call rebuilds    *)
(* from scratch: it returns an instance distinct from the one returned     *)
(* before the reset (no agent object is shared between the two graphs)     *)
(* that has the same structure: agent names, handoff edges, tool sets.     *)
(***************************************************************************)
C2_ResetRebuilds ==
    \A i, j \in Gets :
        (i < j /\ ResetBetween(i, j)) =>
            /\ log[j].ret # log[i].ret
            /\ FirstGet(j) => j \in Builds
            /\ Reach(heap, log[i].ret) \cap Reach(heap, log[j].ret) = {}
            /\ Shape(heap, log[j].ret) = Shape(heap, log[i].ret)

\* get, reset, get.
C2_Witness ==
    \E i, j \in Gets : i < j /\ ResetBetween(i, j) /\ FirstGet(j)

(***************************************************************************)
(* C3: the graph returned by initialize_agent_system (directly or through  *)
(* get_agent_system) has exactly one entry point, the agent named          *)
(* Coordinator; it has exactly two outbound handoff edges, to Data         *)
(* Collection and to Content Analysis; Decision Support has none.          *)
(***************************************************************************)
EntryPoints(h, G) == {a \in G : \A b \in G : a \notin Range(h[b].handoffs)}

C3_EntryPoint ==
    \A e \in DOMAIN log :
        log[e].op \in {"get", "initialize"} =>
            LET r == log[e].ret
                G == Reach(heap, r)
            IN  /\ heap[r].name = "Coordinator"
                /\ EntryPoints(heap, G) = {r}
                /\ {a \in G : heap[a].name = "Coordinator"} = {r}
                /\ Len(heap[r].handoffs) = 2
                /\ HandoffNames(heap, r) = <<"Data Collection", "Content Analysis">>
                /\ \A a \in DOMAIN heap :
                       heap[a].name = "Decision Support" => heap[a].handoffs = <<>>

\* A graph obtained from get_agent_system and one built directly.
C3_Witness ==
    /\ \E e \in DOMAIN log : log[e].op = "get"
    /\ \E e \in DOMAIN log : log[e].op = "initialize"
    /\ \E a \in DOMAIN heap : heap[a].name = "Decision Support"

(***************************************************************************)
(* C4: every build creates the agents in the order Decision Support,       *)
(* Report Generation, Content Analysis, Data Collection, Coordinator; each *)
(* agent's handoff targets are agents built earlier in the same build; the *)
(* handoff edges are exactly Coordinator->{Data Collection, Content        *)
(* Analysis}, Data Collection->Content Analysis, Content Analysis->Report  *)
(* Generation, Report Generation->Decision Support; no agent lies on a     *)
(* cycle.                                                                  *)
(***************************************************************************)
BuildOrder ==
    <<"Decision Support", "Report Generation", "Content Analysis",
      "Data Collection", "Coordinator">>

PipelineEdges ==
    {<<"Coordinator", "Data Collection">>, <<"Coordinator", "Content Analysis">>,
     <<"Data Collection", "Content Analysis">>,
     <<"Content Analysis", "Report Generation">>,
     <<"Report Generation", "Decision Support">>}

C4_BuildOrderAcyclic ==
    \A e \in Builds :
        LET base == log[e].before
            B == (base + 1)..log[e].after
        IN  /\ log[e].after = base + Len(BuildOrder)
            /\ \A k \in DOMAIN BuildOrder : heap[base + k].name = BuildOrder[k]
            /\ \A a \in B : \A t \in Range(heap[a].handoffs) : base < t /\ t < a
            /\ Edges(heap, B) = PipelineEdges
            /\ \A a \in B : ~OnCycle(heap, a)

\* Two builds on the same heap.
C4_Witness == Cardinality(Builds) >= 2

(***************************************************************************)
(* JSON.  A decoded value is a tagged record: a dict carries a record      *)
(* whose fields are its keys (null is the string "null"), a list carries   *)
(* the set of its string elements, a number carries nothing of interest.   *)
(* A JSON text is the value it encodes, wrapped; json.dumps builds the     *)
(* wrapper and json.loads removes it.                                      *)
(***************************************************************************)
JDict(d) == [kind |-> "dict", val |-> d]
JList(items) == [kind |-> "list", val |-> items]
JNumber == [kind |-> "number", val |-> {}]
JNone == [kind |-> "none", val |-> {}]

json_dumps(v) == [text |-> v]
json_loads(t) == t.text

\* Python's  key in x : key membership for a dict, element membership for a
\* list, a TypeError for a number.
In(key, v) ==
    CASE v.kind = "dict" -> key \in DOMAIN v.val
      [] v.kind = "list" -> key \in v.val
      [] OTHER -> FALSE

\* Python's  x.get(key) , None (here "null") when the key is absent.
Get(v, key) == IF key \in DOMAIN v.val THEN v.val[key] ELSE "null"

(***************************************************************************)
(* The crawl service, as seen through GET /tasks/{task_id}.                *)
(***************************************************************************)
TaskIds == {"crawl_001"}

\* The status set of a crawl task (spec section 3).
Statuses == {"pending", "running", "completed", "failed", "cancelled", "timeout"}

\* The statuses wait_for_task_completion treats as final.
Mutant_TerminalStatuses == {"completed", "failed"}

TerminalStatuses == {"completed", "failed", "cancelled"}

\* What response.json() can be: a status object without an "error" key, the
\* documented status object, whose "error" key is null or a message, an
\* object without a status, or a JSON value that is no object.
Bodies(t) ==
    {JDict([task_id |-> t, status |-> s]) : s \in Statuses}
    \cup {JDict([task_id |-> t, status |-> s, error |-> e]) :
              s \in Statuses, e \in {"null", "crawler crashed"}}
    \cup {JDict([task_id |-> t]), JList({"error"}), JList({}), JNumber}

\* What one HTTP exchange can end in.
Replies(t) ==
    {[outcome |-> "http_error", body |-> JNone],
     [outcome |-> "decode_error", body |-> JNone]}
    \cup {[outcome |-> "ok", body |-> b] : b \in Bodies(t)}

\* get_task_status: the text it returns for the task and the exchange.
get_task_status(t, reply) ==
    CASE reply.outcome = "http_error" ->
            json_dumps(JDict([error |-> "Failed to get task status", task_id |-> t]))
      [] reply.outcome = "decode_error" ->
            json_dumps(JDict([error |-> "Unexpected error", task_id |-> t]))
      [] OTHER -> json_dumps(reply.body)

(***************************************************************************)
(* wait_for_task_completion.                                               *)
(***************************************************************************)
DefaultTimeout == 600
DefaultPollInterval == 5

\* The synthesized result of lines 166-174.
TimeoutResult(t, to, status_result) ==
    json_dumps(JDict([error |-> "did not complete within timeout",
                      task_id |-> t, status |-> "timeout",
                      timeout |-> to, last_status |-> status_result]))

Returned(text) == [outcome |-> "returned", value |-> text]
Raised == [outcome |-> "raised", value |-> json_dumps(JNone)]
Continue == [outcome |-> "sleep", value |-> json_dumps(JNone)]

\* The loop body with the deadline tested first.
Mutant_DeadlineFirst(text, t, to, elapsed) ==
    LET status_result == json_loads(text)
    IN  IF status_result.kind \notin {"dict", "list"} THEN Raised
        ELSE IF elapsed > to THEN Returned(TimeoutResult(t, to, status_result))
        ELSE IF In("error", status_result) THEN Returned(text)
        ELSE IF status_result.kind # "dict" THEN Raised
        ELSE IF Get(status_result, "status") \in TerminalStatuses THEN Returned(text)
        ELSE Continue

\* The loop body with the deadline tested before the terminal statuses.
Mutant_DeadlineBeforeTerminal(text, t, to, elapsed) ==
    LET status_result == json_loads(text)
    IN  IF status_result.kind \notin {"dict", "list"} THEN Raised
        ELSE IF In("error", status_result) THEN Returned(text)
        ELSE IF status_result.kind # "dict" THEN Raised
        ELSE IF elapsed > to THEN Returned(TimeoutResult(t, to, status_result))
        ELSE IF Get(status_result, "status") \in TerminalStatuses THEN Returned(text)
        ELSE Continue

\* The loop body without the test of line 158.
Mutant_NoErrorTest(text, t, to, elapsed) ==
    LET status_result == json_loads(text)
    IN  IF status_result.kind # "dict" THEN Raised
        ELSE IF Get(status_result, "status") \in TerminalStatuses THEN Returned(text)
        ELSE IF elapsed > to THEN Returned(TimeoutResult(t, to, status_result))
        ELSE Continue

\* Lines 156-176, from the text the fetch returned to the next suspension:
\* return, raise (a value that is no object), or go on to sleep.
PollDecide(text, t, to, elapsed) ==
    LET status_result == json_loads(text)
    IN  IF status_result.kind \notin {"dict", "list"} THEN Raised
        ELSE IF In("error", status_result) THEN Returned(text)
        ELSE IF status_result.kind # "dict" THEN Raised
        ELSE IF Get(status_result, "status") \in TerminalStatuses THEN Returned(text)
        ELSE IF elapsed > to THEN Returned(TimeoutResult(t, to, status_result))
        ELSE Continue

\* asyncio.sleep that returns at once.
Mutant_SleepAdvance(interval) == 0

\* The clock time asyncio.sleep(interval) takes.
SleepAdvance(interval) == IF interval > 0 THEN interval ELSE 0

\* The arguments of a call: small timeouts and intervals, and the defaults.
SmallInputs == ((-1)..MaxTimeout) \X (0..MaxInterval)
Inputs == SmallInputs \cup {<<DefaultTimeout, DefaultPollInterval>>}

StartClocks == {0, 7}

\* Line 152: the call starts and reads the clock.
Invoke(inputs) ==
    /\ pc = "idle"
    /\ \E t \in TaskIds, in \in inputs, clock \in StartClocks :
          /\ task_id' = t
          /\ timeout' = in[1]
          /\ poll_interval' = in[2]
          /\ now' = clock
          /\ start_time' = clock
    /\ pc' = "fetch"
    /\ UNCHANGED <<status_result_json, result, fetched, nsleep, fetch_delay_sum>>
    /\ UNCHANGED <<sysVars, extVars>>

\* Line 155 and what follows it up to the next suspension or the return:
\* the awaited get_task_status returns after some time, and the loop body
\* decides on the text it returned.
\* The histories are kept when keep is TRUE.
PollFetch(keep) ==
    /\ pc = "fetch"
    /\ \E reply \in Replies(task_id), d \in 0..MaxFetchDelay :
          LET text == get_task_status(task_id, reply)
              elapsed == (now + d) - start_time
              step == PollDecide(text, task_id, timeout, elapsed)
          IN  /\ now' = now + d
              /\ status_result_json' = text
              /\ fetched' = IF keep THEN Append(fetched, text) ELSE fetched
              /\ fetch_delay_sum' = IF keep THEN fetch_delay_sum + d
                                             ELSE fetch_delay_sum
              /\ IF step.outcome = "sleep"
                 THEN pc' = "sleep" /\ result' = result
                 ELSE pc' = step.outcome /\ result' = step
    /\ UNCHANGED <<task_id, timeout, poll_interval, start_time, nsleep>>
    /\ UNCHANGED <<sysVars, extVars>>

\* Line 176: the sleep ends and the loop goes round.
PollSleep(keep) ==
    /\ pc = "sleep"
    /\ now' = now + SleepAdvance(poll_interval)
    /\ nsleep' = IF keep THEN nsleep + 1 ELSE nsleep
    /\ pc' = "fetch"
    /\ UNCHANGED <<task_id, timeout, poll_interval, start_time,
                   status_result_json, result, fetched, fetch_delay_sum>>
    /\ UNCHANGED <<sysVars, extVars>>

InitPoller == InitSys /\ PollIdle /\ ExtIdle

\* SpecPoller follows a poll for at most MaxFetches status fetches.
NextPoller ==
    \/ Invoke(Inputs)
    \/ (Len(fetched) < MaxFetches /\ PollFetch(TRUE))
    \/ PollSleep(TRUE)

SpecPoller == InitPoller /\ [][NextPoller]_vars

\* SpecPollerLive follows a poll with small arguments to its end, however
\* long it runs and without the histories, under fair scheduling: an
\* awaited status fetch returns and a sleep ends.
NextPollerLive ==
    \/ Invoke(SmallInputs)
    \/ PollFetch(FALSE)
    \/ PollSleep(FALSE)

SpecPollerLive ==
    /\ InitPoller
    /\ [][NextPollerLive]_vars
    /\ WF_vars(PollFetch(FALSE))
    /\ WF_vars(PollSleep(FALSE))

(***************************************************************************)
(* Reading a poll's history.                                               *)
(***************************************************************************)
Elapsed == now - start_time

LastFetched == fetched[Len(fetched)]

\* The error results get_task_status builds when the exchange fails.
FetchErrors(t) ==
    {json_dumps(JDict([error |-> m, task_id |-> t])) :
         m \in {"Failed to get task status", "Unexpected error"}}

\* A status object, as the crawl service sends it.
ReportsStatus(text) ==
    /\ json_loads(text).kind = "dict"
    /\ "status" \in DOMAIN json_loads(text).val

ReportsTerminal(text) ==
    /\ ReportsStatus(text)
    /\ json_loads(text).val.status \in {"completed", "failed", "cancelled"}

ReportsNonTerminal(text) ==
    /\ ReportsStatus(text)
    /\ json_loads(text).val.status \notin {"completed", "failed", "cancelled"}

ReportsError(text) ==
    /\ json_loads(text).kind = "dict"
    /\ "error" \in DOMAIN json_loads(text).val

IsTimeoutResult(r) ==
    /\ r.outcome = "returned"
    /\ json_loads(r.value).kind = "dict"
    /\ "last_status" \in DOMAIN json_loads(r.value).val

StatusOf(text) == IF ReportsStatus(text) THEN json_loads(text).val.status ELSE "none"

StatusSequence == [i \in DOMAIN fetched |-> StatusOf(fetched[i])]

(***************************************************************************)
(* C5: whenever a status fetch reports completed, failed or cancelled, the *)
(* poll returns that very text at once: it is the last fetch of the call,  *)
(* and no sleep follows it.                                                *)
(***************************************************************************)
C5_TerminalReturnsAtOnce ==
    \A i \in DOMAIN fetched :
        ReportsTerminal(fetched[i]) =>
            /\ i = Len(fetched)
            /\ pc = "returned"
            /\ result = Returned(fetched[i])
            /\ nsleep = i - 1

\* A poll that slept, then fetched status cancelled and returned it.
C5_Witness ==
    /\ pc = "returned"
    /\ Len(fetched) >= 2
    /\ ReportsTerminal(LastFetched)
    /\ json_loads(LastFetched).val.status = "cancelled"
    /\ result = Returned(LastFetched)

(***************************************************************************)
(* C6: if a status fetch returns get_task_status's error result, the poll  *)
(* returns that error result at once and fetches no more.                  *)
(***************************************************************************)
C6_FetchErrorReturnsAtOnce ==
    \A i \in DOMAIN fetched :
        fetched[i] \in FetchErrors(task_id) =>
            /\ i = Len(fetched)
            /\ pc = "returned"
            /\ result = Returned(fetched[i])
            /\ nsleep = i - 1

\* A poll whose third fetch failed.
C6_Witness ==
    /\ pc = "returned"
    /\ Len(fetched) = 3
    /\ LastFetched \in FetchErrors(task_id)
    /\ result = Returned(LastFetched)

(***************************************************************************)
(* C7: for a task that never reaches a terminal state, the poll goes on    *)
(* while the elapsed time does not exceed the timeout, and returns once it *)
(* does: a synthesized result with an error message, the task id, status   *)
(* "timeout" and, as last_status, the payload of the most recent fetch.    *)
(***************************************************************************)
C7_NeverTerminalTimesOut ==
    /\ pc = "sleep" => Elapsed <= timeout
    /\ (pc \in {"returned", "raised"}
        /\ \A i \in DOMAIN fetched : ReportsNonTerminal(fetched[i])) =>
            /\ pc = "returned"
            /\ Elapsed > timeout
            /\ result = Returned(TimeoutResult(task_id, timeout,
                                               json_loads(LastFetched)))
            /\ json_loads(result.value).val.status = "timeout"
            /\ json_loads(result.value).val.task_id = task_id

(***************************************************************************)
(* C8: when the fetches report n non-terminal statuses and then a terminal *)
(* one, all before the deadline, the poll returns the terminal payload     *)
(* after exactly n sleeps of poll_interval and n+1 fetches.  So a fetch    *)
(* that reports a non-terminal status before the deadline does not end     *)
(* the call, and a call that ends on a terminal status has slept once      *)
(* after each earlier fetch; [running, running, completed] with interval 5 *)
(* and timeout 600 returns the completed payload after 2 sleeps.           *)
(***************************************************************************)
C8_ExactSleeps ==
    /\ (pc \in {"returned", "raised"} /\ ReportsNonTerminal(LastFetched)) =>
            Elapsed > timeout
    /\ (/\ pc \in {"returned", "raised"}
        /\ ReportsTerminal(LastFetched)
        /\ \A i \in 1..(Len(fetched) - 1) : ReportsNonTerminal(fetched[i])) =>
            /\ result = Returned(LastFetched)
            /\ nsleep = Len(fetched) - 1
            /\ Elapsed = nsleep * SleepAdvance(poll_interval) + fetch_delay_sum
    /\ (/\ timeout = DefaultTimeout /\ poll_interval = DefaultPollInterval
        /\ StatusSequence = <<"running", "running", "completed">>) =>
            (pc = "returned" /\ result = Returned(LastFetched) /\ nsleep = 2)

(***************************************************************************)
(* C9: with a zero or negative timeout the poll returns a timeout result   *)
(* only after a status fetch, whose payload is its last_status; and if the *)
(* first fetch reports a terminal status or an error, the poll returns the *)
(* fetched text, not a timeout result.                                     *)
(***************************************************************************)
C9_ZeroTimeoutFetchesFirst ==
    (pc # "idle" /\ timeout <= 0) =>
        /\ IsTimeoutResult(result) =>
              /\ Len(fetched) >= 1
              /\ result = Returned(TimeoutResult(task_id, timeout,
                                                 json_loads(LastFetched)))
        /\ (/\ Len(fetched) >= 1
            /\ ReportsTerminal(fetched[1]) \/ ReportsError(fetched[1])) =>
              /\ pc = "returned"
              /\ result = Returned(fetched[1])

\* A negative timeout: the first fetch took time and reported a terminal
\* status, which the poll returned although the deadline had passed.
C9_Witness ==
    /\ timeout < 0
    /\ pc = "returned"
    /\ Len(fetched) = 1
    /\ Elapsed > 0
    /\ ReportsTerminal(fetched[1])
    /\ ~ReportsError(fetched[1])
    /\ result = Returned(fetched[1])

(***************************************************************************)
(* C10: with a positive poll_interval every call ends, whatever statuses   *)
(* the crawl service reports, provided each status fetch returns: the call *)
(* returns, unless the service answered with a JSON value that is not a    *)
(* status object, on which the call raises.                                *)
(***************************************************************************)
C10_PollTerminates ==
    []((pc \in {"fetch", "sleep"} /\ poll_interval > 0) =>
          <>(\/ pc = "returned"
             \/ (pc = "raised" /\ json_loads(status_result_json).kind # "dict")))

\* A poll with a positive interval that slept until its deadline passed.
C10_Witness ==
    /\ pc = "returned"
    /\ poll_interval > 0
    /\ timeout > 0
    /\ Elapsed >= 2 * poll_interval
    /\ IsTimeoutResult(result)

(***************************************************************************)
(* The other tool adapters.  Each adapter is an operator from its          *)
(* arguments and the outcome of its HTTP exchange to the request it sends  *)
(* (if any) and the result it returns.                                     *)
(***************************************************************************)
MaxCalls == 2        \* adapter calls per behaviour
MaxCount == 2        \* small like/comment/share counts range over 0..MaxCount
MaxNumTopics == 22   \* num_topics ranges over -1..MaxNumTopics, and 50
MaxLimit == 1        \* small limits range over -1..MaxLimit

Min(a, b) == IF a < b THEN a ELSE b
Max(a, b) == IF a > b THEN a ELSE b

\* A text json.loads rejects (it raises json.JSONDecodeError).
InvalidJson == [text |-> [kind |-> "invalid", val |-> {}]]
Decodes(t) == t.text.kind # "invalid"

\* What the HTTP exchange of an adapter can end in: httpx.HTTPError before
\* the service is reached or on a non-2xx status (raise_for_status), a 2xx
\* body response.json() cannot decode, or a decoded body.
ExchangeFailures == {"connect_error", "status_error", "decode_error"}

Exchanges(bodies) ==
    {[outcome |-> o, body |-> JNone] : o \in ExchangeFailures}
    \cup {[outcome |-> "ok", body |-> b] : b \in bodies}

NoExchange == [outcome |-> "none", body |-> JNone]
NoRequest == [method |-> "none"]

IsHTTPError(exchange) == exchange.outcome \in {"connect_error", "status_error"}

\* create_crawler_task whose generic handler forgets the request fields.
Mutant_create_crawler_task(platform, crawler_type, config_json, exchange) ==
    LET fail(msg) == json_dumps(JDict([error |-> msg, platform |-> platform,
                                       crawler_type |-> crawler_type]))
        request == [method |-> "POST", url |-> "crawler_api_base/tasks/crawl",
                    json |-> [platform |-> platform, crawler_type |-> crawler_type,
                              config |-> json_loads(config_json)]]
    IN  IF ~Decodes(config_json)
        THEN [request |-> NoRequest,
              result |-> json_dumps(JDict([error |-> "Unexpected error"]))]
        ELSE IF IsHTTPError(exchange)
        THEN [request |-> request, result |-> fail("Failed to create crawler task")]
        ELSE IF exchange.outcome = "decode_error"
        THEN [request |-> request, result |-> fail("Unexpected error")]
        ELSE [request |-> request, result |-> json_dumps(exchange.body)]

create_crawler_task(platform, crawler_type, config_json, exchange) ==
    LET fail(msg) == json_dumps(JDict([error |-> msg, platform |-> platform,
                                       crawler_type |-> crawler_type]))
        request == [method |-> "POST", url |-> "crawler_api_base/tasks/crawl",
                    json |-> [platform |-> platform, crawler_type |-> crawler_type,
                              config |-> json_loads(config_json)]]
    IN  IF ~Decodes(config_json)
        THEN [request |-> NoRequest, result |-> fail("Unexpected error")]
        ELSE IF IsHTTPError(exchange)
        THEN [request |-> request, result |-> fail("Failed to create crawler task")]
        ELSE IF exchange.outcome = "decode_error"
        THEN [request |-> request, result |-> fail("Unexpected error")]
        ELSE [request |-> request, result |-> json_dumps(exchange.body)]

\* get_crawler_statistics that submits a crawl instead of reading.
Mutant_get_crawler_statistics(t, exchange) ==
    LET fail(msg) == json_dumps(JDict([error |-> msg, task_id |-> t]))
        request == [method |-> "POST", url |-> "crawler_api_base/tasks/crawl",
                    task_id |-> t]
    IN  IF IsHTTPError(exchange)
        THEN [request |-> request, result |-> fail("Failed to get statistics")]
        ELSE IF exchange.outcome = "decode_error"
        THEN [request |-> request, result |-> fail("Unexpected error")]
        ELSE [request |-> request, result |-> json_dumps(exchange.body)]

get_crawler_statistics(t, exchange) ==
    LET fail(msg) == json_dumps(JDict([error |-> msg, task_id |-> t]))
        request == [method |-> "GET", url |-> "crawler_api_base/tasks/{task_id}/stats", task_id |-> t]
    IN  IF IsHTTPError(exchange)
        THEN [request |-> request, result |-> fail("Failed to get statistics")]
        ELSE IF exchange.outcome = "decode_error"
        THEN [request |-> request, result |-> fail("Unexpected error")]
        ELSE [request |-> request, result |-> json_dumps(exchange.body)]

\* min(limit, 1000) without the min.
Mutant_ClampLimit(limit) == limit

\* Line 272: min(limit, 1000).
ClampLimit(limit) == Min(limit, 1000)

\* A filter is sent only when its argument is truthy (not None, not "").
NoParams == [k \in {} |-> ""]
Filter(key, value) == IF value # "" THEN [k \in {key} |-> value] ELSE NoParams

query_crawled_posts(platform, keyword, start, end, limit, exchange) ==
    LET fail(msg) == json_dumps(JList({JDict([error |-> msg])}))
        params == [limit |-> ClampLimit(limit)]
                  @@ Filter("platform", platform) @@ Filter("keyword", keyword)
                  @@ Filter("start_time", start) @@ Filter("end_time", end)
        request == [method |-> "GET", url |-> "crawler_api_base/posts", params |-> params]
    IN  IF IsHTTPError(exchange)
        THEN [request |-> request, result |-> fail("Failed to query posts")]
        ELSE IF exchange.outcome = "decode_error"
        THEN [request |-> request, result |-> fail("Unexpected error")]
        ELSE [request |-> request, result |-> json_dumps(exchange.body)]

analyze_sensitive_content(video_url, video_id, exchange) ==
    LET fail(msg) == JDict([error |-> msg, video_id |-> video_id,
                            has_violation |-> FALSE])
        request == [method |-> "POST", url |-> "sensitive_content_api/analyze",
                    json |-> [video_url |-> video_url, video_id |-> video_id]]
    IN  IF IsHTTPError(exchange)
        THEN [request |-> request,
              result |-> fail("Failed to analyze sensitive content")]
        ELSE IF exchange.outcome = "decode_error"
        THEN [request |-> request, result |-> fail("Unexpected error")]
        ELSE [request |-> request, result |-> exchange.body]

\* analyze_sentiment whose generic handler returns only the message and id.
Mutant_analyze_sentiment(text, post_id, exchange) ==
    LET fail(msg) == JDict([error |-> msg, post_id |-> post_id,
                            overall_sentiment |-> "neutral", sentiment_score |-> 0,
                            emotions |-> {}, confidence |-> 0])
        request == [method |-> "POST", url |-> "sentiment_api/analyze",
                    json |-> [text |-> text, post_id |-> post_id]]
    IN  IF IsHTTPError(exchange)
        THEN [request |-> request, result |-> fail("Failed to analyze sentiment")]
        ELSE IF exchange.outcome = "decode_error"
        THEN [request |-> request,
              result |-> JDict([error |-> "Unexpected error", post_id |-> post_id])]
        ELSE [request |-> request, result |-> exchange.body]

analyze_sentiment(text, post_id, exchange) ==
    LET fail(msg) == JDict([error |-> msg, post_id |-> post_id,
                            overall_sentiment |-> "neutral", sentiment_score |-> 0,
                            emotions |-> {}, confidence |-> 0])
        request == [method |-> "POST", url |-> "sentiment_api/analyze",
                    json |-> [text |-> text, post_id |-> post_id]]
    IN  IF IsHTTPError(exchange)
        THEN [request |-> request, result |-> fail("Failed to analyze sentiment")]
        ELSE IF exchange.outcome = "decode_error"
        THEN [request |-> request, result |-> fail("Unexpected error")]
        ELSE [request |-> request, result |-> exchange.body]

\* The clamp without its lower bound.
Mutant_ClampTopics(num_topics) == Min(num_topics, 20)

\* Line 182: max(3, min(num_topics, 20)).
ClampTopics(num_topics) == Max(3, Min(num_topics, 20))

extract_topics(texts, num_topics, exchange) ==
    LET fail(msg) == json_dumps(JList({JDict([error |-> msg])}))
        request == [method |-> "POST", url |-> "sentiment_api/topics",
                    json |-> [texts |-> texts,
                              num_topics |-> ClampTopics(num_topics)]]
    IN  IF IsHTTPError(exchange)
        THEN [request |-> request, result |-> fail("Failed to extract topics")]
        ELSE IF exchange.outcome = "decode_error"
        THEN [request |-> request, result |-> fail("Unexpected error")]
        ELSE [request |-> request, result |-> json_dumps(exchange.body)]

\* detect_trends that decodes its argument only after the exchange.
Mutant_detect_trends(post_data_json, time_window, exchange) ==
    LET fail(msg) == json_dumps(JList({JDict([error |-> msg])}))
        request == [method |-> "POST", url |-> "sentiment_api/trends",
                    json |-> [posts |-> json_loads(post_data_json),
                              time_window |-> time_window]]
    IN  IF IsHTTPError(exchange)
        THEN [request |-> request, result |-> fail("Failed to detect trends")]
        ELSE IF exchange.outcome = "decode_error" \/ ~Decodes(post_data_json)
        THEN [request |-> request, result |-> fail("Unexpected error")]
        ELSE [request |-> request, result |-> json_dumps(exchange.body)]

detect_trends(post_data_json, time_window, exchange) ==
    LET fail(msg) == json_dumps(JList({JDict([error |-> msg])}))
        request == [method |-> "POST", url |-> "sentiment_api/trends",
                    json |-> [posts |-> json_loads(post_data_json),
                              time_window |-> time_window]]
    IN  IF ~Decodes(post_data_json)
        THEN [request |-> NoRequest, result |-> fail("Unexpected error")]
        ELSE IF IsHTTPError(exchange)
        THEN [request |-> request, result |-> fail("Failed to detect trends")]
        ELSE IF exchange.outcome = "decode_error"
        THEN [request |-> request, result |-> fail("Unexpected error")]
        ELSE [request |-> request, result |-> json_dumps(exchange.body)]

\* Python's `x or default` on an integer argument: 0 (and None) is falsy.
OrDefault(x, default) == IF x = 0 THEN default ELSE x

\* round(n / d, k) once n / d is scaled to units of 10^-k: the nearest
\* integer to n / d (d > 0).  On an exact tie the binary floating-point
\* value decides the direction, so the direction is an input.
Round(n, d, tie_up) ==
    LET q == n \div d
        r == n - q * d
    IN  IF 2 * r < d THEN q
        ELSE IF 2 * r > d THEN q + 1
        ELSE IF tie_up THEN q + 1 ELSE q

\* The directions a rounding of n / d can take.
TieChoices(n, d) == IF 2 * (n % d) = d THEN BOOLEAN ELSE {FALSE}

\* Line 310 / 311: (interactions / views) * 100 if views > 0 else 0, as an
\* exact fraction num / den.
Rate(interactions, views) ==
    IF views > 0 THEN [num |-> interactions * 100, den |-> views]
    ELSE [num |-> 0, den |-> 1]

\* (engagement_rate / platform_avg - 1) * 100 in tenths, as a fraction.
VsAverage(rate, avg) ==
    [num |-> rate.num * 10000 - 1000 * avg * rate.den, den |-> avg * rate.den]

\* The level thresholds read as inclusive.
Mutant_EngagementLevel(num, den) ==
    IF num >= 10 * den THEN "very_high"
    ELSE IF num >= 5 * den THEN "high"
    ELSE IF num >= 2 * den THEN "medium"
    ELSE "low"

\* Lines 314-325 on the unrounded rate num / den (den > 0), in percent.
EngagementLevel(num, den) ==
    IF num > 10 * den THEN "very_high"
    ELSE IF num > 5 * den THEN "high"
    ELSE IF num > 2 * den THEN "medium"
    ELSE "low"

Percentile(level) ==
    CASE level = "very_high" -> 95
      [] level = "high" -> 75
      [] level = "medium" -> 50
      [] OTHER -> 25

\* platform_avg = 5.2, in tenths of a percent.
platform_avg == 52

\* analyze_engagement.  Rates are exact fractions num / den in percent; the
\* reported engagement_rate and interaction_rate are in hundredths of a
\* percent (two decimals), vs_average in tenths (one decimal).
analyze_engagement(likes_arg, comments_arg, shares_arg, views_arg, ties) ==
    LET likes == OrDefault(likes_arg, 0)
        comments == OrDefault(comments_arg, 0)
        shares == OrDefault(shares_arg, 0)
        views == OrDefault(views_arg, 1)
        total_interactions == likes + comments + shares
        engagement_rate == Rate(total_interactions, views)
        interaction_rate == Rate(comments + shares, views)
        vs_average == VsAverage(engagement_rate, platform_avg)
        level == EngagementLevel(engagement_rate.num, engagement_rate.den)
        report ==
            [engagement_rate |->
                 Round(engagement_rate.num * 100, engagement_rate.den, ties.rate),
             interaction_rate |->
                 Round(interaction_rate.num * 100, interaction_rate.den, ties.interaction),
             engagement_level |-> level,
             total_interactions |-> total_interactions,
             metrics |-> [likes |-> likes, comments |-> comments,
                          shares |-> shares, views |-> views],
             benchmarks |->
                 [platform_average |-> platform_avg,
                  percentile |-> Percentile(level),
                  vs_average |->
                      Round(vs_average.num, vs_average.den, ties.vs_average)]]
    IN  [request |-> NoRequest, result |-> json_dumps(JDict(report))]

\* Argument values of the adapter calls.
Platforms == {"douyin", "xhs"}
CrawlerTypes == {"search", "detail"}
ConfigTexts == {json_dumps(JDict([keywords |-> "ai"])), InvalidJson}
VideoIds == {"video_123"}
PostIds == {"post_456"}
PostTexts == {json_dumps(JList({"post_456"})), json_dumps(JList({})), InvalidJson}
TimeWindows == {"24h", "7d"}
NumTopics == ((-1)..MaxNumTopics) \cup {50}
Limits == ((-1)..MaxLimit) \cup {1000, 1001, 5000}
OptionalText(values) == {""} \cup values
\* <<likes, comments, shares>>
Interactions ==
    ((0..MaxCount) \X (0..MaxCount) \X (0..MaxCount))
    \cup {<<100, 10, 5>>, <<1000, 50, 20>>}
ViewCounts == {-1, 0, 1, 10, 20, 32, 50, 10000}

\* 2xx bodies of the services: the documented object, and shapes the
\* adapters do not expect.
UnexpectedBodies == {JList({}), JNumber}

SubmitBodies(platform, crawler_type) ==
    {JDict([task_id |-> "crawl_001", status |-> "pending", platform |-> platform,
            crawler_type |-> crawler_type])} \cup UnexpectedBodies

StatsBodies(t) ==
    {JDict([task_id |-> t, total_posts |-> 1])} \cup UnexpectedBodies

PostBodies == {JList({"post_456"}), JDict([detail |-> "bad query"])}

SensitiveBodies(video_id) ==
    {JDict([video_id |-> video_id, has_violation |-> v]) : v \in BOOLEAN}
    \cup UnexpectedBodies

SentimentBodies(post_id) ==
    {JDict([post_id |-> post_id, overall_sentiment |-> o, sentiment_score |-> 1,
            confidence |-> 1]) : o \in {"positive", "negative"}}
    \cup UnexpectedBodies

TopicBodies == {JList({"topic_1"}), JList({}), JDict([detail |-> "bad request"])}

\* The crawl service (spec section 6): a submit it answers with a 2xx status
\* has created one task; no other request creates or changes a task.
TasksCreated(request, exchange) ==
    IF /\ request # NoRequest
       /\ request.method = "POST"
       /\ request.url = "crawler_api_base/tasks/crawl"
       /\ exchange.outcome \in {"ok", "decode_error"}
    THEN 1 ELSE 0

\* One adapter call, recorded with what it was given, sent and returned.
Call(tool, args, exchange, r) ==
    /\ ncalls < MaxCalls
    /\ tool_call' = [tool |-> tool, args |-> args,
                     exchange |-> IF r.request = NoRequest THEN NoExchange
                                  ELSE exchange,
                     request |-> r.request, result |-> r.result]
    /\ ncalls' = ncalls + 1
    /\ crawl_tasks' = crawl_tasks + TasksCreated(r.request, exchange)
    /\ UNCHANGED <<sysVars, pollVars, waitVars, apiVars, concVars>>

CreateCrawlerTask ==
    \E platform \in Platforms, crawler_type \in CrawlerTypes,
       config_json \in ConfigTexts :
      \E exchange \in Exchanges(SubmitBodies(platform, crawler_type)) :
        LET r == create_crawler_task(platform, crawler_type, config_json, exchange)
        IN  /\ Call("create_crawler_task",
                    [platform |-> platform, crawler_type |-> crawler_type,
                     config_json |-> config_json], exchange, r)

\* get_task_status called as a tool: line 113 sends the request, and the
\* text is what the poller's fetch gets as well.
GetTaskStatus ==
    \E t \in TaskIds :
      \E reply \in Replies(t) :
        /\ Call("get_task_status", [task_id |-> t], reply,
                [request |-> [method |-> "GET",
                              url |-> "crawler_api_base/tasks/{task_id}",
                              task_id |-> t],
                 result |-> get_task_status(t, reply)])

GetCrawlerStatistics ==
    \E t \in TaskIds :
      \E exchange \in Exchanges(StatsBodies(t)) :
        /\ Call("get_crawler_statistics", [task_id |-> t], exchange,
                get_crawler_statistics(t, exchange))

QueryCrawledPosts ==
    \E platform \in OptionalText({"douyin"}), keyword \in OptionalText({"ai"}),
       start \in OptionalText({"2025-11-01T00:00:00"}),
       end \in OptionalText({"2025-11-02T00:00:00"}), limit \in Limits :
      \E exchange \in Exchanges(PostBodies) :
        /\ Call("query_crawled_posts",
                [platform |-> platform, keyword |-> keyword, start_time |-> start,
                 end_time |-> end, limit |-> limit], exchange,
                query_crawled_posts(platform, keyword, start, end, limit, exchange))

AnalyzeSensitiveContent ==
    \E video_id \in VideoIds :
      \E exchange \in Exchanges(SensitiveBodies(video_id)) :
        /\ Call("analyze_sensitive_content",
                [video_url |-> "https://example.com/video.mp4",
                 video_id |-> video_id], exchange,
                analyze_sensitive_content("https://example.com/video.mp4",
                                          video_id, exchange))

AnalyzeSentiment ==
    \E post_id \in PostIds :
      \E exchange \in Exchanges(SentimentBodies(post_id)) :
        /\ Call("analyze_sentiment", [text |-> "great", post_id |-> post_id],
                exchange, analyze_sentiment("great", post_id, exchange))

ExtractTopics ==
    \E num_topics \in NumTopics :
      \E exchange \in Exchanges(TopicBodies) :
        /\ Call("extract_topics", [texts |-> <<"a", "b">>, num_topics |-> num_topics],
                exchange, extract_topics(<<"a", "b">>, num_topics, exchange))

DetectTrends ==
    \E post_data_json \in PostTexts, time_window \in TimeWindows :
      \E exchange \in Exchanges(TopicBodies) :
        /\ Call("detect_trends",
                [post_data_json |-> post_data_json, time_window |-> time_window],
                exchange, detect_trends(post_data_json, time_window, exchange))

\* The roundings of one call, each free in its direction on an exact tie.
Ties(likes, comments, shares, views) ==
    LET engagement_rate == Rate(likes + comments + shares, OrDefault(views, 1))
        interaction_rate == Rate(comments + shares, OrDefault(views, 1))
        vs_average == VsAverage(engagement_rate, platform_avg)
    IN  [rate : TieChoices(engagement_rate.num * 100, engagement_rate.den),
         interaction : TieChoices(interaction_rate.num * 100, interaction_rate.den),
         vs_average : TieChoices(vs_average.num, vs_average.den)]

AnalyzeEngagement ==
    \E counts \in Interactions, views \in ViewCounts :
      \E ties \in Ties(counts[1], counts[2], counts[3], views) :
        /\ Call("analyze_engagement",
                [likes |-> counts[1], comments |-> counts[2], shares |-> counts[3],
                 views |-> views], NoExchange,
                analyze_engagement(counts[1], counts[2], counts[3], views, ties))

InitTools == InitSys /\ PollIdle /\ ExtIdle

NextTools ==
    \/ CreateCrawlerTask
    \/ GetTaskStatus
    \/ GetCrawlerStatistics
    \/ QueryCrawledPosts
    \/ AnalyzeSensitiveContent
    \/ AnalyzeSentiment
    \/ ExtractTopics
    \/ DetectTrends
    \/ AnalyzeEngagement

SpecTools == InitTools /\ [][NextTools]_vars

(***************************************************************************)
(* Claims about the tool adapters.                                         *)
(***************************************************************************)
LastTool == tool_call.tool

\* An error-shaped object: a dict with an error key.
IsErrorObject(v) == v.kind = "dict" /\ "error" \in DOMAIN v.val

\* A call that failed: an argument json.loads rejects, or an exchange that
\* ended in a transport error, a non-2xx status or an undecodable body.
CallFailed ==
    \/ tool_call.request = NoRequest
    \/ tool_call.exchange.outcome \in ExchangeFailures

\* C11: no tool adapter ever raises; here for wait_for_task_completion: a
\* call of it never ends by raising, whatever the status fetch delivers.
C11_NeverRaises == pc # "raised"

\* C12: every failure of create_crawler_task returns an object with an error
\* message and with platform and crawler_type equal to the arguments.
C12_CreateFailureEchoesArguments ==
    (LastTool = "create_crawler_task" /\ CallFailed) =>
        LET r == json_loads(tool_call.result)
        IN  /\ IsErrorObject(r)
            /\ DOMAIN r.val = {"error", "platform", "crawler_type"}
            /\ r.val.platform = tool_call.args.platform
            /\ r.val.crawler_type = tool_call.args.crawler_type

\* A submit that failed before any request (configuration that does not
\* decode), for a platform other than the first.
C12_Witness ==
    /\ LastTool = "create_crawler_task"
    /\ tool_call.request = NoRequest
    /\ tool_call.args.platform = "xhs"
    /\ json_loads(tool_call.result).val.platform = "xhs"

\* C13: a failed analyze_sensitive_content returns error, the video_id and
\* has_violation = false; a failed analyze_sentiment returns error, the
\* post_id, overall_sentiment = neutral, sentiment_score = 0, confidence = 0.
C13_AnalysisFailureDefaults ==
    /\ (LastTool = "analyze_sensitive_content" /\ CallFailed) =>
           /\ IsErrorObject(tool_call.result)
           /\ DOMAIN tool_call.result.val = {"error", "video_id", "has_violation"}
           /\ tool_call.result.val.video_id = tool_call.args.video_id
           /\ tool_call.result.val.has_violation = FALSE
    /\ (LastTool = "analyze_sentiment" /\ CallFailed) =>
           /\ IsErrorObject(tool_call.result)
           /\ DOMAIN tool_call.result.val =
                  {"error", "post_id", "overall_sentiment", "sentiment_score",
                   "emotions", "confidence"}
           /\ tool_call.result.val.post_id = tool_call.args.post_id
           /\ tool_call.result.val.overall_sentiment = "neutral"
           /\ tool_call.result.val.sentiment_score = 0
           /\ tool_call.result.val.confidence = 0

\* A sentiment call whose 2xx body could not be decoded.
C13_Witness ==
    /\ LastTool = "analyze_sentiment"
    /\ tool_call.exchange.outcome = "decode_error"
    /\ tool_call.result.val.overall_sentiment = "neutral"

\* C14: extract_topics dispatches a num_topics in [3, 20], equal to the
\* argument when that is in range; 1 is sent as 3 and 50 as 20.
C14_TopicsClamped ==
    (LastTool = "extract_topics") =>
        LET sent == tool_call.request.json.num_topics
            num_topics == tool_call.args.num_topics
        IN  /\ sent \in 3..20
            /\ (num_topics \in 3..20) => sent = num_topics
            /\ (num_topics = 1) => sent = 3
            /\ (num_topics = 50) => sent = 20

\* A request for one topic, sent as a request for three.
C14_Witness ==
    /\ LastTool = "extract_topics"
    /\ tool_call.args.num_topics = 1
    /\ tool_call.request.json.num_topics = 3

\* C15 as stated: the limit query_crawled_posts dispatches lies in (0, 1000]
\* for every integer limit; 5000 is sent as 1000.
C15_LimitInRange ==
    (LastTool = "query_crawled_posts") =>
        /\ tool_call.request.params.limit \in 1..1000
        /\ (tool_call.args.limit = 5000) => tool_call.request.params.limit = 1000

\* C15 amended: the dispatched limit is never above 1000, equals the
\* argument whenever that is at most 1000 (zero and negative limits are sent
\* unchanged), and so lies in (0, 1000] whenever the argument is at least 1;
\* 5000 is sent as 1000.
C15_LimitCapped ==
    (LastTool = "query_crawled_posts") =>
        LET sent == tool_call.request.params.limit
            limit == tool_call.args.limit
        IN  /\ sent <= 1000
            /\ (limit <= 1000) => sent = limit
            /\ (limit >= 1) => sent \in 1..1000
            /\ (limit = 5000) => sent = 1000

\* A query with limit 0, sent with limit 0.
C15_Witness ==
    /\ LastTool = "query_crawled_posts"
    /\ tool_call.args.limit = 0
    /\ tool_call.request.params.limit = 0

\* C16: analyze_engagement reports total_interactions = likes + comments +
\* shares, engagement_rate = total / views * 100 to two decimals, and the
\* level by strict thresholds on the rate: very_high above 10, high above 5,
\* medium above 2, low otherwise (views at least 1); 1000 likes, 50
\* comments, 20 shares on 10000 views give 1070, 10.7 and very_high.
C16_EngagementFormula ==
    (LastTool = "analyze_engagement" /\ tool_call.args.views >= 1) =>
        LET a == tool_call.args
            r == json_loads(tool_call.result).val
            total == a.likes + a.comments + a.shares
        IN  /\ r.total_interactions = total
            /\ r.engagement_rate * a.views - total * 10000 \in
                   (-(a.views \div 2))..(a.views \div 2)
            /\ r.engagement_level =
                   IF total * 100 > 10 * a.views THEN "very_high"
                   ELSE IF total * 100 > 5 * a.views THEN "high"
                   ELSE IF total * 100 > 2 * a.views THEN "medium"
                   ELSE "low"
            /\ (a = [likes |-> 1000, comments |-> 50, shares |-> 20, views |-> 10000])
                   => /\ r.total_interactions = 1070
                      /\ r.engagement_rate = 1070
                      /\ r.engagement_level = "very_high"

\* A post whose rate is exactly 10 percent, reported as high.
C16_Witness ==
    /\ LastTool = "analyze_engagement"
    /\ tool_call.args.views = 10
    /\ tool_call.args.likes + tool_call.args.comments + tool_call.args.shares = 1
    /\ json_loads(tool_call.result).val.engagement_rate = 1000
    /\ json_loads(tool_call.result).val.engagement_level = "high"

\* C17: with views = 0 analyze_engagement reports engagement_rate = 0 and
\* the total of the interactions (115 for 100 likes, 10 comments, 5 shares).
C17_ZeroViewsZeroRate ==
    (LastTool = "analyze_engagement" /\ tool_call.args.views = 0) =>
        LET a == tool_call.args
            r == json_loads(tool_call.result).val
        IN  /\ r.engagement_rate = 0
            /\ r.total_interactions = a.likes + a.comments + a.shares
            /\ (a.likes = 100 /\ a.comments = 10 /\ a.shares = 5)
                   => r.total_interactions = 115

(***************************************************************************)
(* The analysis endpoint, create_analysis, and the run it starts.  The     *)
(* runner is the external agent SDK: a run takes turns; a turn calls       *)
(* tools, hands off to an agent wired to the active one, or ends the run   *)
(* with a final output or an exception.                                    *)
(***************************************************************************)
MaxRequests == 2      \* requests served per behaviour
MaxTurnBudget == 6    \* max_turns ranges over 0..MaxTurnBudget

\* request.session_id: absent (None), empty, or given.
SessionIds == {Null, "", "session_a"}

\* f"session_{id(request)}"
GeneratedSessionId == "session_<id(request)>"

\* Python's  s or default  on an optional string.
OrText(s, default) == IF s \in {Null, ""} THEN default ELSE s

Requests == [session_id : SessionIds, max_turns : 0..MaxTurnBudget]

\* The final output of a run that ends with the given agent: text for an
\* agent without an output contract, an object of the contract (with
\* model_dump) otherwise.
RunOutput(h, agent) ==
    IF h[agent].output_type = "None"
    THEN [kind |-> "text", text |-> "final answer"]
    ELSE [kind |-> "model", type |-> h[agent].output_type]

\* The exceptions a run can end in; str(e) may be empty.
RunExceptions == {"MaxTurnsExceeded", "ModelBehaviorError", "APIConnectionError", ""}

\* The handler's except branch without the failed status.
Mutant_FailedResponse(req, message) ==
    [request_id |-> OrText(req.session_id, "unknown"), status |-> "error",
     result |-> JNone, error |-> message]

\* Lines 94-97: the response of the except branch.
FailedResponse(req, message) ==
    [request_id |-> OrText(req.session_id, "unknown"), status |-> "failed",
     result |-> JNone, error |-> message]

\* Lines 86-92: the response built from the run's result.  A final output
\* with model_dump is passed as it is to the field  result: Optional[dict] ;
\* whether the response model accepts it (accepts) depends on the installed
\* validation library, and a rejection is an exception inside the try.
CompletedResponse(req, sid, output, accepts) ==
    IF output.kind = "text"
    THEN [request_id |-> sid, status |-> "completed",
          result |-> JDict([output |-> output.text]), error |-> Null]
    ELSE IF accepts
    THEN [request_id |-> sid, status |-> "completed",
          result |-> JDict([model |-> output.type]), error |-> Null]
    ELSE FailedResponse(req, "ValidationError")

\* Lines 72-79: the session is opened, then the pipeline is fetched.
CreateAnalysis ==
    /\ api_pc \in {"idle", "responded"}
    /\ nrequests < MaxRequests
    /\ nrequests' = nrequests + 1
    /\ current_turn' = 0
    /\ \E req \in Requests, session_ok \in BOOLEAN :
         /\ api_request' = req
         /\ session_id' = OrText(req.session_id, GeneratedSessionId)
         /\ IF session_ok
            THEN LET r == get_agent_system(agent_system, heap)
                 IN  /\ agent_system' = r.sys
                     /\ heap' = r.heap
                     /\ active' = r.ret
                     /\ handoff_trace' = <<r.heap[r.ret].name>>
                     /\ api_pc' = "running"
                     /\ response' = NoResponse
            ELSE /\ UNCHANGED <<agent_system, heap>>
                 /\ active' = None
                 /\ handoff_trace' = <<>>
                 /\ api_pc' = "responded"
                 /\ response' = FailedResponse(req, "OperationalError")
    /\ UNCHANGED <<log, pollVars, waitVars, toolVars, concVars>>

\* A turn in which the active agent calls tools and keeps control.
RunnerToolTurn ==
    /\ api_pc = "running"
    /\ current_turn < api_request.max_turns
    /\ current_turn' = current_turn + 1
    /\ UNCHANGED <<sysVars, pollVars, waitVars, toolVars, concVars, api_pc, api_request, session_id,
                   active, handoff_trace, response, nrequests>>

\* A turn in which the active agent hands off to an agent it is wired to.
RunnerHandoff ==
    /\ api_pc = "running"
    /\ current_turn < api_request.max_turns
    /\ \E target \in Range(heap[active].handoffs) :
         /\ active' = target
         /\ handoff_trace' = Append(handoff_trace, heap[target].name)
    /\ current_turn' = current_turn + 1
    /\ UNCHANGED <<sysVars, pollVars, waitVars, toolVars, concVars, api_pc, api_request, session_id,
                   response, nrequests>>

\* A turn in which the active agent gives the final output; the handler
\* then builds the response.
RunnerFinalOutput ==
    /\ api_pc = "running"
    /\ current_turn < api_request.max_turns
    /\ \E accepts \in BOOLEAN :
         response' = CompletedResponse(api_request, session_id,
                                       RunOutput(heap, active), accepts)
    /\ current_turn' = current_turn + 1
    /\ api_pc' = "responded"
    /\ UNCHANGED <<sysVars, pollVars, waitVars, toolVars, concVars, api_request, session_id, active,
                   handoff_trace, nrequests>>

\* The run raises: the turn budget is used up, or a turn fails.
RunnerRaises ==
    /\ api_pc = "running"
    /\ \E e \in RunExceptions :
         /\ (e = "MaxTurnsExceeded") <=> (current_turn >= api_request.max_turns)
         /\ response' = FailedResponse(api_request, e)
    /\ api_pc' = "responded"
    /\ UNCHANGED <<sysVars, pollVars, waitVars, toolVars, concVars, api_request, session_id, active,
                   handoff_trace, current_turn, nrequests>>

InitApi == InitSys /\ PollIdle /\ ExtIdle

NextApi ==
    \/ CreateAnalysis
    \/ RunnerToolTurn
    \/ RunnerHandoff
    \/ RunnerFinalOutput
    \/ RunnerRaises

SpecApi == InitApi /\ [][NextApi]_vars

(***************************************************************************)
(* Claims about the endpoint and the run.                                  *)
(***************************************************************************)
\* C18: the analysis endpoint always answers with status completed or
\* failed; an exception anywhere in the handler gives failed with an error
\* and no result; completed carries a result and no error.
C18_CompletedOrFailed ==
    /\ api_pc \in {"idle", "running", "responded"}
    /\ (api_pc = "running") => response = NoResponse
    /\ (api_pc = "responded") =>
           /\ response.status \in {"completed", "failed"}
           /\ (response.status = "failed") =>
                  (response.error # Null /\ response.result = JNone)
           /\ (response.status = "completed") =>
                  (response.result.kind = "dict" /\ response.error = Null)

\* A run that used up its turn budget after a handoff, answered as failed.
C18_Witness ==
    /\ api_pc = "responded"
    /\ Len(handoff_trace) > 1
    /\ response.status = "failed"
    /\ response.error = "MaxTurnsExceeded"
    /\ response.result = JNone

\* C19: within a run control starts at the Coordinator and moves only along
\* the handoff edges Coordinator -> {Data Collection, Content Analysis},
\* Data Collection -> Content Analysis -> Report Generation -> Decision
\* Support; no agent has control twice, there are at most four handoffs, and
\* nothing follows Decision Support.
C19_HandoffsFollowGraph ==
    (handoff_trace # <<>>) =>
        /\ handoff_trace[1] = "Coordinator"
        /\ \A i \in 1..(Len(handoff_trace) - 1) :
               <<handoff_trace[i], handoff_trace[i + 1]>> \in PipelineEdges
        /\ \A i, j \in DOMAIN handoff_trace :
               (handoff_trace[i] = handoff_trace[j]) => i = j
        /\ Len(handoff_trace) - 1 <= 4
        /\ \A i \in DOMAIN handoff_trace :
               (handoff_trace[i] = "Decision Support") => i = Len(handoff_trace)
        /\ heap[active].name = handoff_trace[Len(handoff_trace)]

\* A run that went through all five agents, took a further turn with the
\* last one and had budget left.
C19_Witness ==
    /\ api_pc = "running"
    /\ handoff_trace = <<"Coordinator", "Data Collection", "Content Analysis",
                         "Report Generation", "Decision Support">>
    /\ current_turn = 5
    /\ current_turn < api_request.max_turns

(***************************************************************************)
(* get_agent_system and reset_agent_system under interleaved callers.  A   *)
(* caller can be preempted between the test of the global (line 63), the   *)
(* construction of the graph, the assignment of the global (line 64) and   *)
(* the read of the global that is returned (line 66).                      *)
(***************************************************************************)
\* The test with the branch always taken.
Mutant_NeedsBuild(sys) == TRUE

\* Line 63: if _agent_system is None.
NeedsBuild(sys) == sys = None

Building(c) == callers[c].pc \in {"build", "store"}

ResetsSoFar == Cardinality({i \in DOMAIN conc_log : conc_log[i].op = "reset"})

\* Calls completed or under way.
OpsStarted == Len(conc_log) + Cardinality({c \in Callers : callers[c].pc # "idle"})

\* Line 63.  The caller notes (history) how many calls had completed and
\* whether the singleton was settled: cached, with no construction under way.
GetCheck ==
    \E c \in Callers :
      /\ callers[c].pc = "idle"
      /\ OpsStarted < MaxCallerOps
      /\ callers' = [callers EXCEPT ![c] =
             [pc |-> IF NeedsBuild(agent_system) THEN "build" ELSE "return",
              built |-> None, started |-> Len(conc_log),
              settled |-> (agent_system # None
                           /\ \A d \in Callers \ {c} : ~Building(d))]]
      /\ UNCHANGED <<sysVars, pollVars, waitVars, toolVars, apiVars, conc_log>>

\* Line 64, right-hand side: initialize_agent_system().
GetBuild ==
    \E c \in Callers :
      /\ callers[c].pc = "build"
      /\ LET b == initialize_agent_system(heap)
         IN  /\ heap' = b.heap
             /\ callers' = [callers EXCEPT ![c].pc = "store", ![c].built = b.ret]
      /\ UNCHANGED <<agent_system, log, pollVars, waitVars, toolVars, apiVars, conc_log>>

\* Line 64, the assignment of the global.
GetStore ==
    \E c \in Callers :
      /\ callers[c].pc = "store"
      /\ agent_system' = callers[c].built
      /\ callers' = [callers EXCEPT ![c].pc = "return"]
      /\ UNCHANGED <<heap, log, pollVars, waitVars, toolVars, apiVars, conc_log>>

\* Line 66: return _agent_system.
GetReturn ==
    \E c \in Callers :
      /\ callers[c].pc = "return"
      /\ conc_log' = Append(conc_log,
             [op |-> "get", caller |-> c, ret |-> agent_system,
              built |-> callers[c].built, started |-> callers[c].started,
              settled |-> callers[c].settled])
      /\ callers' = [callers EXCEPT ![c].pc = "idle"]
      /\ UNCHANGED <<sysVars, pollVars, waitVars, toolVars, apiVars>>

\* reset_agent_system: one assignment.
CallerReset ==
    \E c \in Callers :
      /\ callers[c].pc = "idle"
      /\ OpsStarted < MaxCallerOps
      /\ agent_system' = reset_agent_system(agent_system)
      /\ conc_log' = Append(conc_log,
             [op |-> "reset", caller |-> c, ret |-> None, built |-> None,
              started |-> Len(conc_log), settled |-> FALSE])
      /\ UNCHANGED <<heap, log, pollVars, waitVars, toolVars, apiVars, callers>>

InitCallers == InitSys /\ PollIdle /\ ExtIdle

NextCallers ==
    \/ GetCheck
    \/ GetBuild
    \/ GetStore
    \/ GetReturn
    \/ CallerReset

SpecCallers == InitCallers /\ [][NextCallers]_vars

(***************************************************************************)
(* Claims about concurrent callers.                                        *)
(***************************************************************************)
GetEvents == {i \in DOMAIN conc_log : conc_log[i].op = "get"}
Constructions == {i \in GetEvents : conc_log[i].built # None}

\* C20: when callers of get_agent_system race on an empty cache, a double
\* construction is harmless: with no reset, every call returns a built
\* Coordinator; once the racing calls have returned, the cache holds one of
\* the instances they built, and every call that starts from then on
\* builds nothing and returns the cached instance.
C20_RaceSettles ==
    (ResetsSoFar = 0) =>
        /\ \A i \in GetEvents :
               /\ conc_log[i].ret # None
               /\ heap[conc_log[i].ret].name = "Coordinator"
               /\ conc_log[i].settled =>
                      (conc_log[i].built = None /\ conc_log[i].ret = agent_system)
        /\ (GetEvents # {} /\ \A c \in Callers : ~Building(c)) =>
               /\ agent_system \in {conc_log[i].built : i \in Constructions}
                      \cup {callers[c].built : c \in Callers}
               /\ agent_system # None
        /\ Cardinality(Constructions) <= MaxCallers

\* Both callers built an instance, both returned, and a call that started
\* afterwards returned the cached one of the two.
C20_Witness ==
    /\ ResetsSoFar = 0
    /\ Len(conc_log) = 3
    /\ conc_log[1].built # None
    /\ conc_log[2].built # None
    /\ conc_log[1].built # conc_log[2].built
    /\ conc_log[1].caller # conc_log[2].caller
    /\ conc_log[3].settled
    /\ conc_log[3].started = 2
    /\ conc_log[3].ret = agent_system
    /\ agent_system \in {conc_log[1].built, conc_log[2].built}

(***************************************************************************)
(* More claims about the poller.                                           *)
(***************************************************************************)
\* A payload of the documented get_status shape: a status object that
\* carries an error key (null while nothing went wrong).
IsStatusPayload(text) == ReportsStatus(text) /\ ReportsError(text)

\* C23: a successfully fetched payload of the get_status shape whose status
\* is pending or running, observed before the deadline, never ends the
\* wait: no call ends on such a fetch.
C23_PendingPayloadKeepsWaiting ==
    ~ /\ pc \in {"returned", "raised"}
      /\ Len(fetched) >= 1
      /\ IsStatusPayload(LastFetched)
      /\ StatusOf(LastFetched) \in {"pending", "running"}
      /\ Elapsed <= timeout

\* C24: a terminal status takes precedence over the deadline: a fetch that
\* reports completed, failed or cancelled is returned as it is even when
\* the elapsed time exceeds the timeout, and a timeout result never follows
\* a fetch that reported a terminal status.
C24_TerminalBeatsDeadline ==
    (Len(fetched) >= 1) =>
        /\ (ReportsTerminal(LastFetched) /\ Elapsed > timeout) =>
               /\ pc = "returned"
               /\ result = Returned(LastFetched)
               /\ ~IsTimeoutResult(result)
        /\ (pc = "returned" /\ IsTimeoutResult(result)) =>
               ~ReportsTerminal(LastFetched)

\* A call past its deadline whose fetch reported completed, with no error
\* key in the payload, and that returned the payload.
C24_Witness ==
    /\ pc = "returned"
    /\ Len(fetched) >= 2
    /\ Elapsed > timeout
    /\ timeout >= 0
    /\ LastFetched = json_dumps(JDict([task_id |-> task_id, status |-> "completed"]))
    /\ result = Returned(LastFetched)

\* C25: for a task that never becomes terminal, with timeout T >= 0 and
\* poll interval I > 0 and time advancing only during sleeps, the call
\* times out at the first check whose elapsed time exceeds T: it makes
\* floor(T / I) + 2 fetches and returns no later than T + I after its start.
C25_FetchCount ==
    (/\ pc \in {"returned", "raised"}
     /\ timeout >= 0
     /\ poll_interval > 0
     /\ fetch_delay_sum = 0
     /\ \A i \in DOMAIN fetched : ReportsNonTerminal(fetched[i])) =>
        /\ pc = "returned"
        /\ IsTimeoutResult(result)
        /\ Elapsed > timeout
        /\ Elapsed <= timeout + poll_interval
        /\ Len(fetched) = (timeout \div poll_interval) + 2

\* C26: a task whose reported status is "timeout" is not terminal for the
\* poller: the call goes on until its own deadline has passed and then
\* returns its synthesized timeout result, not the task's payload.
C26_TimeoutStatusNotTerminal ==
    (/\ pc \in {"returned", "raised"}
     /\ Len(fetched) >= 1
     /\ \A i \in DOMAIN fetched : StatusOf(fetched[i]) = "timeout") =>
        /\ pc = "returned"
        /\ Elapsed > timeout
        /\ result = Returned(TimeoutResult(task_id, timeout, json_loads(LastFetched)))

(***************************************************************************)
(* More claims about concurrent callers.                                   *)
(***************************************************************************)
\* C27: get_agent_system never returns None: under any interleaving of
\* get_agent_system and reset_agent_system calls, every completed
\* get_agent_system call has returned a built Coordinator.
C27_GetNeverReturnsNone ==
    \A i \in GetEvents :
        /\ conc_log[i].ret # None
        /\ conc_log[i].ret \in DOMAIN heap
        /\ heap[conc_log[i].ret].name = "Coordinator"

(***************************************************************************)
(* More claims about the tool adapters.                                    *)
(***************************************************************************)
CrawlReaders == {"get_task_status", "get_crawler_statistics", "query_crawled_posts"}

C28_DecodeBeforeRequest ==
    [][ (ncalls' # ncalls) =>
            /\ (/\ tool_call'.tool = "create_crawler_task"
                /\ ~Decodes(tool_call'.args.config_json)) =>
                   /\ tool_call'.request = NoRequest
                   /\ tool_call'.exchange = NoExchange
                   /\ IsErrorObject(json_loads(tool_call'.result))
                   /\ crawl_tasks' = crawl_tasks
            /\ (/\ tool_call'.tool = "detect_trends"
                /\ ~Decodes(tool_call'.args.post_data_json)) =>
                   /\ tool_call'.request = NoRequest
                   /\ tool_call'.exchange = NoExchange
                   /\ json_loads(tool_call'.result)
                          = JList({JDict([error |-> "Unexpected error"])})
                   /\ crawl_tasks' = crawl_tasks
      ]_vars

\* A submit with an undecodable configuration after an accepted submit: one
\* task, not two.
C28_Witness ==
    /\ ncalls = 2
    /\ crawl_tasks = 1
    /\ LastTool = "create_crawler_task"
    /\ ~Decodes(tool_call.args.config_json)
    /\ tool_call.request = NoRequest

(***************************************************************************)
(* More claims about the endpoint.                                         *)
(***************************************************************************)
\* C29: the response's request_id equals the session identifier used for
\* the run, on completed and failed outcomes alike: the supplied session_id
\* when the request carries one, otherwise the identifier generated for it.
C29_RequestIdIsSessionId ==
    (api_pc = "responded") =>
        /\ response.request_id = session_id
        /\ response.request_id =
               IF api_request.session_id \in {Null, ""}
               THEN GeneratedSessionId
               ELSE api_request.session_id

(***************************************************************************)
(* Two calls of wait_for_task_completion in one event loop.  Each call has *)
(* its own local variables (frames); the calls share the event loop's      *)
(* clock and nothing else.  solo runs each call alone: it is driven by the *)
(* replies about the call's own task and the clock readings at its own     *)
(* steps, and never reads the other call.                                  *)
(***************************************************************************)
WaitTaskIds == {"crawl_001", "crawl_002"}

\* The arguments of the two calls: a deadline that can pass and a sleep
\* that takes time.
WaitInputs == {in \in SmallInputs : in[1] >= 0 /\ in[2] >= 1}

\* What the status fetch of one of the two calls can end in.
WaitReplies(t) ==
    {[outcome |-> "http_error", body |-> JNone]}
    \cup {[outcome |-> "ok", body |-> JDict([task_id |-> t, status |-> s])] :
              s \in {"running", "completed", "timeout"}}
    \cup {[outcome |-> "ok",
           body |-> JDict([task_id |-> t, status |-> "running", error |-> "null"])]}

\* Lines 132-152: the locals of a call that starts when the clock reads clock.
NewFrame(t, in, clock) ==
    [NoFrame EXCEPT !.pc = "fetch", !.task_id = t, !.timeout = in[1],
                    !.poll_interval = in[2], !.start_time = clock]

\* Lines 155-176: the locals after the status fetch returned reply when the
\* clock reads clock.
AfterFetch(f, reply, clock) ==
    LET text == get_task_status(f.task_id, reply)
        step == PollDecide(text, f.task_id, f.timeout, clock - f.start_time)
    IN  IF step.outcome = "sleep"
        THEN [f EXCEPT !.pc = "sleep", !.wake = clock + SleepAdvance(f.poll_interval)]
        ELSE [f EXCEPT !.pc = step.outcome, !.result = step]

\* Line 176: the locals when the sleep has ended.
AfterSleep(f) == [f EXCEPT !.pc = "fetch"]

\* start_time kept in one variable that every call assigns.
Mutant_Enter(fs, p, f) ==
    [q \in DOMAIN fs |->
        IF q = p THEN f
        ELSE IF fs[q].pc = "idle" THEN fs[q]
        ELSE [fs[q] EXCEPT !.start_time = f.start_time]]

\* A call of the function gets local variables of its own.
Enter(fs, p, f) == [fs EXCEPT ![p] = f]

\* Line 152: a call starts, on a task no other call waits for.
WaitInvoke ==
    \E p \in Pollers, in \in WaitInputs,
       t \in WaitTaskIds \ {frames[q].task_id : q \in Pollers} :
          /\ frames[p].pc = "idle"
          /\ frames' = Enter(frames, p, NewFrame(t, in, loop_time))
          /\ solo' = [solo EXCEPT ![p] = NewFrame(t, in, loop_time)]
          /\ UNCHANGED loop_time
          /\ UNCHANGED <<sysVars, pollVars, toolVars, apiVars, concVars>>

\* Line 155 and what follows it up to the sleep or the return.
WaitFetch ==
    \E p \in Pollers :
       /\ frames[p].pc = "fetch"
       /\ \E reply \in WaitReplies(frames[p].task_id) :
             /\ frames' = [frames EXCEPT ![p] = AfterFetch(frames[p], reply, loop_time)]
             /\ solo' = [solo EXCEPT ![p] = AfterFetch(solo[p], reply, loop_time)]
       /\ UNCHANGED loop_time
       /\ UNCHANGED <<sysVars, pollVars, toolVars, apiVars, concVars>>

\* Line 176: the event loop resumes a call whose sleep is over.
WaitWake ==
    \E p \in Pollers :
       /\ frames[p].pc = "sleep"
       /\ loop_time >= frames[p].wake
       /\ frames' = [frames EXCEPT ![p] = AfterSleep(frames[p])]
       /\ solo' = [solo EXCEPT ![p] = AfterSleep(solo[p])]
       /\ UNCHANGED loop_time
       /\ UNCHANGED <<sysVars, pollVars, toolVars, apiVars, concVars>>

\* Time passes while every call is suspended: a status fetch in flight
\* takes any time, and a sleeping call is resumed when its sleep is over.
Tick ==
    /\ loop_time < MaxClock
    /\ \A p \in Pollers : frames[p].pc = "sleep" => frames[p].wake > loop_time
    /\ loop_time' = loop_time + 1
    /\ UNCHANGED <<frames, solo>>
    /\ UNCHANGED <<sysVars, pollVars, toolVars, apiVars, concVars>>

InitWaiters == InitSys /\ PollIdle /\ ExtIdle

NextWaiters == WaitInvoke \/ WaitFetch \/ WaitWake \/ Tick

SpecWaiters == InitWaiters /\ [][NextWaiters]_vars

WaitDone(f) == f.pc \in {"returned", "raised"}

====
